---- MODULE Spec2Model ----
(***************************************************************************)
(* Model of the transactional workload engine of the repository:           *)
(*   scripts/workload/db_connection.py     CockroachDBConnection           *)
(*   scripts/workload/crud_operations.py   EcommerceCRUD                   *)
(*   scripts/workload/workload_simulator.py WorkloadSimulator              *)
(*   scripts/cluster/cluster_monitor.py    ClusterMonitor                  *)
(*   scripts/testing/fault_tolerance_test.py FaultToleranceTest            *)
(*   ui/dashboard.py                       the dashboard                   *)
(*                                                                         *)
(* Spec         : concurrent callers of execute_query/execute_transaction  *)
(*                on one ThreadedConnectionPool, one step per statement.   *)
(* SpecFair     : Spec with per-thread weak fairness.                      *)
(* SpecWorkload : run_workload(N, K): thread pool, futures, aggregation,   *)
(*                the rows of the schema and the latency lists; a call of  *)
(*                the executor is one step there.                          *)
(* SpecScenario : SpecWorkload with the create-only mix, an empty schema   *)
(*                and a database that fails no statement.                  *)
(* SpecRetryLoop: one retry loop and the delays it sleeps.                 *)
(* SpecMix      : one draw of _get_random_operation from an assigned mix.  *)
(* SpecMetrics  : get_performance_metrics on one latency list.             *)
(* SpecMonitor  : ClusterMonitor polling the status endpoint of a cluster  *)
(*                whose nodes update their timestamps, die and restart.    *)
(* SpecDashboard: print_cluster_summary and the dashboard's Cluster        *)
(*                Overview tab on a cluster of either payload version.     *)
(* SpecFaultTest: one test of scripts/testing/fault_tolerance_test.py and  *)
(*                its background workload thread; SpecFaultTestFair adds   *)
(*                weak fairness of both threads.                           *)
(***************************************************************************)
EXTENDS Integers, Sequences, FiniteSets, TLC

\* ---------------------------------------------------------------- bounds
\* number of threads calling the executor concurrently
NumWorkers == 2
\* pool sizes, scaled down from minconn=5 / maxconn=50
MinConn == 1
MaxConn == 2
\* number of distinct connection objects the server is willing to open
NumConns == 2
\* longest statement list handed to execute_transaction
MaxStmts == 2

\* largest num_transactions / num_threads handed to run_workload
MaxTransactions == 2
MaxThreads == 2
\* largest num_items of one order, scaled down from randint(1, 5)
MaxItems == 2
\* key ranges of the rows the workload draws
MaxCustKey == 2
MaxPartKey == 1
MaxSuppKey == 1
MaxOrderKey == 2
\* weights of a workload mix: 0, WeightUnit, ... MaxWeightUnits * WeightUnit
WeightUnit == 50
MaxWeightUnits == 2

\* longest latency list summarised, the stride and the offset of the
\* insertion orders tried
MaxSamples == 100
MaxStride == 3
MaxOffset == 1

\* nodes of the cluster the monitor polls
NumNodes == 2
\* time units per second, scaled down from the 1_000_000_000 of a timestamp
\* in nanoseconds
SubPerSec == 2
\* consecutive time units followed around each instant
MaxTicks == 2
\* records of one payload that are not of the documented form
MaxDefective == 1

\* ------------------------------------------------------ program constants
\* default of the threshold_seconds parameter of _is_node_live
ThresholdSeconds == 600
\* get_performance_metrics: a percentile is read off the sorted list only
\* when there are more than 20 samples; the percentile is 0.95
P95MinSamples == 20
P95Percent == 95
\* random.randint(1, 100) in _get_random_operation
DrawMax == 100
\* default of the max_retries parameter
MaxRetries == 3

Workers == 1..NumWorkers
Conns == 1..NumConns
None == 0
NoOne == 0

\* psycopg2 exception classes as the except clauses tell them apart:
\* TransactionRollbackError is a subclass of OperationalError; "Error" is
\* every other exception (IntegrityError, ProgrammingError, PoolError ...)
ExcKinds == {"TransactionRollbackError", "OperationalError", "Error"}
IsOperationalError(e) == e \in {"TransactionRollbackError", "OperationalError"}

\* the three ways the callers of this repository use the executor
CallKinds == {"query_auto", "query_tx", "txn"}

VARIABLES
    \* ThreadedConnectionPool
    pool,        \* _pool: idle connections, last one handed out first
    rused,       \* _rused: connection -> thread it is checked out to
    closed,      \* connections the pool has closed
    nconn,       \* connections opened so far
    \* connections and database
    autocommit,  \* conn.autocommit
    txn,         \* statements pending in the connection's open transaction
    committed,   \* committed[w][i]: times statement i of w's call was committed
    intxn,       \* connections on which a transaction was begun and not ended
    \* one executor call per thread
    kind, nstmts, pc, attempt, conn, cursor, stmt, exc, after, result,
    \* run_workload
    numTransactions, numThreads, mainpc, futures, results, tfut, tpc, titems,
    mix,         \* self.workload_mix during the run
    faults,      \* whether the database may fail a statement
    rows,        \* keys of the rows each table holds
    metrics,     \* len(self.metrics[kind])
    appended,    \* append calls made so far, per kind
    tkeys,       \* custkey, partkey, suppkey of the thread's operation
    \* maxconn handed to ThreadedConnectionPool
    maxconn,
    \* one retry loop and the delays it has slept
    boFn, boMax, boPc, boAttempt, boSlept,
    \* one call of _get_random_operation
    drawRand,    \* rand = random.randint(1, 100), 0 before the call
    drawOp,      \* the operation it returned
    \* one call of get_performance_metrics
    times,       \* self.metrics[op_type] of one kind
    summary,     \* its entry of metrics_summary
    \* ClusterMonitor and the cluster it polls
    now,         \* the clock
    alive,       \* the nodes that are running
    updatedAt,   \* the timestamp each node wrote last
    response,    \* what the last GET /_status/nodes met
    nodeStatus,  \* what the last get_node_status returned
    summaryOut,  \* how the last print_cluster_summary ended
    counts,      \* the totals it printed
    monpc,       \* monitor_continuously
    apiVersion,  \* the payload shape the cluster's endpoint serves
    \* the dashboard
    dash,        \* what the Cluster Overview tab showed last
    \* one fault-tolerance test and its background workload thread
    ftTest,      \* which test runs
    ftNodes,     \* node_id / node_ids: the nodes it fails, in order
    ftDuration,  \* workload_duration
    ftpc,        \* the step the test is at
    ftIdx,       \* position in the kill loop or the restart loop
    ftLog,       \* the steps it has taken
    ftDown,      \* nodes it has killed and not started again
    wlpc,        \* workload_thread
    wlEvent      \* workload_complete

poolVars == <<pool, rused, closed, nconn>>
dbVars == <<autocommit, txn, committed, intxn>>
callVars == <<kind, nstmts, pc, attempt, conn, cursor, stmt, exc, after, result>>
execVars == <<pool, rused, closed, nconn, autocommit, txn, committed, intxn,
              kind, nstmts, pc, attempt, conn, cursor, stmt, exc, after, result>>
paramVars == <<numTransactions, numThreads, mix, faults>>
mainVars == <<mainpc, results>>
threadVars == <<futures, tfut, tpc, titems, tkeys>>
metricVars == <<metrics, appended>>
workVars == <<numTransactions, numThreads, mainpc, futures, results, tfut, tpc, titems,
              mix, faults, rows, metrics, appended, tkeys>>
boVars == <<boFn, boMax, boPc, boAttempt, boSlept>>
\* what the executor, the workload and the retry loop each leave alone
drawVars == <<drawRand, drawOp>>
sumVars == <<times, summary>>
monVars == <<now, alive, updatedAt, response, nodeStatus, summaryOut, counts, monpc,
            apiVersion>>
uiVars == <<dash>>
ftVars == <<ftTest, ftNodes, ftDuration, ftpc, ftIdx, ftLog, ftDown, wlpc, wlEvent>>
nonExecVars == <<workVars, maxconn, boVars, drawVars, sumVars, monVars, uiVars,
    ftVars>>
nonWorkVars == <<execVars, maxconn, boVars, drawVars, sumVars, monVars, uiVars,
    ftVars>>
nonBoVars == <<execVars, workVars, maxconn, drawVars, sumVars, monVars, uiVars,
    ftVars>>
nonDrawVars == <<execVars, workVars, maxconn, boVars, sumVars, monVars, uiVars,
    ftVars>>
nonSumVars == <<execVars, workVars, maxconn, boVars, drawVars, monVars, uiVars,
    ftVars>>
nonMonVars == <<execVars, workVars, maxconn, boVars, drawVars, sumVars, uiVars,
    ftVars>>
nonUiVars == <<execVars, workVars, maxconn, boVars, drawVars, sumVars, monVars,
    ftVars>>
nonFtVars == <<execVars, workVars, maxconn, boVars, drawVars, sumVars, monVars,
    uiVars>>
vars == <<pool, rused, closed, nconn, autocommit, txn, committed, intxn,
          kind, nstmts, pc, attempt, conn, cursor, stmt, exc, after, result,
          numTransactions, numThreads, mainpc, futures, results, tfut, tpc, titems,
          mix, faults, rows, metrics, appended, tkeys,
          maxconn, boFn, boMax, boPc, boAttempt, boSlept,
          drawRand, drawOp, times, summary,
          now, alive, updatedAt, response, nodeStatus, summaryOut, counts, monpc,
          apiVersion, dash,
          ftTest, ftNodes, ftDuration, ftpc, ftIdx, ftLog, ftDown, wlpc, wlEvent>>

\* ------------------------------------------------- ThreadedConnectionPool
\* number of checked-out connections (len(self._used))
NumUsed == Cardinality({c \in Conns : rused[c] # NoOne})

\* pool.getconn() hands out a connection: the last idle one, or a newly
\* opened one while fewer than maxconn are checked out
GetConnChoice ==
    IF pool # <<>> THEN pool[Len(pool)]
    ELSE IF NumUsed < maxconn /\ nconn < NumConns THEN nconn + 1
    ELSE None

\* pool.getconn() raises: PoolError when exhausted, OperationalError when the
\* node refuses the new connection
GetConnError ==
    IF pool # <<>> THEN "none"
    ELSE IF NumUsed >= maxconn THEN "Error"
    ELSE "OperationalError"

\* a rollback that does nothing
Rollback_Skipped(t, c) == t

\* conn.rollback(): discards the open transaction; on a closed connection it
\* raises and every caller swallows that
Rollback(t, c) == IF c \in closed THEN t ELSE [t EXCEPT ![c] = {}]

\* the first statement on a connection that is not in autocommit begins a
\* transaction, whether the statement succeeds or fails
Begun(c) == IF autocommit[c] \/ c \in closed THEN intxn ELSE intxn \cup {c}
\* conn.rollback() and conn.commit() end it
Ended(c) == IF c \in closed THEN intxn ELSE intxn \ {c}

\* conn.commit(): every pending statement of the connection becomes visible
Bump(n) == IF n < 2 THEN n + 1 ELSE 2
CommitAll(cm, recs) ==
    [w \in Workers |-> [i \in 1..MaxStmts |->
        IF <<w, i>> \in recs THEN Bump(cm[w][i]) ELSE cm[w][i]]]

\* ------------------------------------------------------ retry classification
\* execute_query: except OperationalError / except Exception
EQ_After(e, a) ==
    IF IsOperationalError(e)
    THEN (IF a < MaxRetries - 1 THEN "continue" ELSE "raise")
    ELSE "raise"

\* execute_query: which except paths call conn.rollback()
EQ_Rollback(e, a, c) ==
    IF IsOperationalError(e)
    THEN a < MaxRetries - 1 /\ c # None
    ELSE c # None /\ ~autocommit[c]

\* a handler that retries whatever the exception is
ET_After_RetryAll(e, a) ==
    IF a < MaxRetries - 1 THEN "continue" ELSE "return_False"

\* execute_transaction: except TransactionRollbackError / except Exception
ET_After(e, a) ==
    IF e = "TransactionRollbackError"
    THEN (IF a < MaxRetries - 1 THEN "continue" ELSE "return_False")
    ELSE "return_False"

\* execute_transaction: every except path rolls back when conn is set
ET_Rollback(e, a, c) == c # None

\* a loop that re-enters the same attempt
NextAttempt_Same(a) == a

\* for attempt in range(max_retries): the attempt after a `continue`
NextAttempt(a) == a + 1

\* a finally that gives the connection back only when the call ends
FinallyPuts_AtExit(c, aft) == c # None /\ aft # "continue"

\* finally: `if conn: self.pool.putconn(conn)`
FinallyPuts(c, aft) == c # None

\* ------------------------------------------------------------ initial state
\* __init__: ThreadedConnectionPool opens minconn connections
InitPool ==
    /\ pool = [i \in 1..MinConn |-> i]
    /\ rused = [c \in Conns |-> NoOne]
    /\ closed = {}
    /\ nconn = MinConn
    /\ autocommit = [c \in Conns |-> FALSE]
    /\ txn = [c \in Conns |-> {}]
    /\ committed = [w \in Workers |-> [i \in 1..MaxStmts |-> 0]]
    /\ intxn = {}

\* no executor call has been made yet
InitCalls ==
    /\ kind = [w \in Workers |-> "none"]
    /\ nstmts = [w \in Workers |-> 0]
    /\ pc = [w \in Workers |-> "idle"]
    /\ attempt = [w \in Workers |-> 0]
    /\ conn = [w \in Workers |-> None]
    /\ cursor = [w \in Workers |-> FALSE]
    /\ stmt = [w \in Workers |-> 0]
    /\ exc = [w \in Workers |-> "none"]
    /\ after = [w \in Workers |-> "none"]
    /\ result = [w \in Workers |-> "none"]

\* --------------------------------------------- execute_query / _transaction
\* a thread enters execute_query(query[, params]) or
\* execute_transaction(operations): conn = None, cursor = None, attempt 0
Call(w) ==
    /\ pc[w] = "idle"
    /\ \E k \in CallKinds, n \in 1..MaxStmts :
         /\ (k # "txn" => n = 1)
         /\ kind' = [kind EXCEPT ![w] = k]
         /\ nstmts' = [nstmts EXCEPT ![w] = n]
    /\ pc' = [pc EXCEPT ![w] = "getconn"]
    /\ UNCHANGED <<attempt, conn, cursor, stmt, exc, after, result>>
    /\ UNCHANGED <<poolVars, dbVars, nonExecVars>>

\* conn = self.pool.getconn(); conn.autocommit = ...; cursor = conn.cursor()
GetConnOk(w) ==
    /\ pc[w] = "getconn"
    /\ GetConnChoice # None
    /\ LET c == GetConnChoice IN
         /\ pool' = IF pool # <<>> THEN SubSeq(pool, 1, Len(pool) - 1) ELSE pool
         /\ nconn' = IF pool # <<>> THEN nconn ELSE c
         /\ rused' = [rused EXCEPT ![c] = w]
         /\ autocommit' = [autocommit EXCEPT ![c] = (kind[w] = "query_auto")]
         /\ conn' = [conn EXCEPT ![w] = c]
    /\ cursor' = [cursor EXCEPT ![w] = TRUE]
    /\ stmt' = [stmt EXCEPT ![w] = 1]
    /\ pc' = [pc EXCEPT ![w] = "execute"]
    /\ UNCHANGED <<closed, txn, committed, intxn, kind, nstmts, attempt, exc, after,
                   result>>
    /\ UNCHANGED nonExecVars

\* self.pool.getconn() raises; conn and cursor keep their previous values
GetConnFail(w) ==
    /\ pc[w] = "getconn"
    /\ GetConnError # "none"
    /\ exc' = [exc EXCEPT ![w] = GetConnError]
    /\ pc' = [pc EXCEPT ![w] = "except"]
    /\ UNCHANGED <<kind, nstmts, attempt, conn, cursor, stmt, after, result>>
    /\ UNCHANGED <<poolVars, dbVars, nonExecVars>>

\* cursor.execute(query, params) succeeds (and fetchall, for a query)
ExecuteOk(w) ==
    /\ pc[w] = "execute"
    /\ conn[w] \notin closed
    /\ LET c == conn[w] IN
         IF autocommit[c]
         THEN /\ committed' = CommitAll(committed, {<<w, stmt[w]>>})
              /\ txn' = txn
         ELSE /\ txn' = [txn EXCEPT ![c] = @ \cup {<<w, stmt[w]>>}]
              /\ committed' = committed
    /\ intxn' = Begun(conn[w])
    /\ IF stmt[w] < nstmts[w]
       THEN /\ stmt' = [stmt EXCEPT ![w] = @ + 1]
            /\ UNCHANGED <<pc, after>>
       ELSE /\ stmt' = stmt
            /\ IF autocommit[conn[w]]
               THEN /\ pc' = [pc EXCEPT ![w] = "finally"]
                    /\ after' = [after EXCEPT ![w] =
                          IF kind[w] = "txn" THEN "return_True" ELSE "return_result"]
               ELSE /\ pc' = [pc EXCEPT ![w] = "commit"]
                    /\ after' = after
    /\ UNCHANGED <<autocommit, kind, nstmts, attempt, conn, cursor, exc, result>>
    /\ UNCHANGED <<poolVars, nonExecVars>>

\* cursor.execute / fetchall raises
ExecuteFail(w) ==
    /\ pc[w] = "execute"
    /\ \E e \in ExcKinds :
         /\ (conn[w] \in closed => e = "Error")
         /\ exc' = [exc EXCEPT ![w] = e]
    /\ pc' = [pc EXCEPT ![w] = "except"]
    /\ intxn' = Begun(conn[w])
    /\ UNCHANGED <<kind, nstmts, attempt, conn, cursor, stmt, after, result>>
    /\ UNCHANGED <<poolVars, autocommit, txn, committed, nonExecVars>>

\* conn.commit() succeeds; return True / return result
CommitOk(w) ==
    /\ pc[w] = "commit"
    /\ conn[w] \notin closed
    /\ committed' = CommitAll(committed, txn[conn[w]])
    /\ txn' = [txn EXCEPT ![conn[w]] = {}]
    /\ intxn' = Ended(conn[w])
    /\ after' = [after EXCEPT ![w] =
          IF kind[w] = "txn" THEN "return_True" ELSE "return_result"]
    /\ pc' = [pc EXCEPT ![w] = "finally"]
    /\ UNCHANGED <<autocommit, kind, nstmts, attempt, conn, cursor, stmt, exc, result>>
    /\ UNCHANGED <<poolVars, nonExecVars>>

\* conn.commit() raises; nothing was committed
CommitFail(w) ==
    /\ pc[w] = "commit"
    /\ \E e \in ExcKinds :
         /\ (conn[w] \in closed => e = "Error")
         /\ exc' = [exc EXCEPT ![w] = e]
    /\ pc' = [pc EXCEPT ![w] = "except"]
    /\ UNCHANGED <<kind, nstmts, attempt, conn, cursor, stmt, after, result>>
    /\ UNCHANGED <<poolVars, dbVars, nonExecVars>>

\* execute_query: the two except clauses
EQ_Except(w) ==
    /\ pc[w] = "except"
    /\ kind[w] \in {"query_auto", "query_tx"}
    /\ txn' = IF EQ_Rollback(exc[w], attempt[w], conn[w])
              THEN Rollback(txn, conn[w]) ELSE txn
    /\ intxn' = IF EQ_Rollback(exc[w], attempt[w], conn[w])
                THEN Ended(conn[w]) ELSE intxn
    /\ after' = [after EXCEPT ![w] = EQ_After(exc[w], attempt[w])]
    /\ pc' = [pc EXCEPT ![w] = "finally"]
    /\ UNCHANGED <<autocommit, committed, kind, nstmts, attempt, conn, cursor, stmt, exc, result>>
    /\ UNCHANGED <<poolVars, nonExecVars>>

\* execute_transaction: the two except clauses
ET_Except(w) ==
    /\ pc[w] = "except"
    /\ kind[w] = "txn"
    /\ txn' = IF ET_Rollback(exc[w], attempt[w], conn[w])
              THEN Rollback(txn, conn[w]) ELSE txn
    /\ intxn' = IF ET_Rollback(exc[w], attempt[w], conn[w])
                THEN Ended(conn[w]) ELSE intxn
    /\ after' = [after EXCEPT ![w] = ET_After(exc[w], attempt[w])]
    /\ pc' = [pc EXCEPT ![w] = "finally"]
    /\ UNCHANGED <<autocommit, committed, kind, nstmts, attempt, conn, cursor, stmt, exc, result>>
    /\ UNCHANGED <<poolVars, nonExecVars>>

\* what the call does once the finally block is through
Resume(w) ==
    IF after[w] = "continue"
    THEN IF NextAttempt(attempt[w]) < MaxRetries
         THEN /\ attempt' = [attempt EXCEPT ![w] = NextAttempt(@)]
              /\ pc' = [pc EXCEPT ![w] = "getconn"]
              /\ exc' = [exc EXCEPT ![w] = "none"]
              /\ after' = [after EXCEPT ![w] = "none"]
              /\ result' = result
         ELSE /\ pc' = [pc EXCEPT ![w] = "returned"]
              /\ result' = [result EXCEPT ![w] =
                    IF kind[w] = "txn" THEN "False" ELSE "None"]
              /\ UNCHANGED <<attempt, exc, after>>
    ELSE IF after[w] = "raise"
    THEN /\ pc' = [pc EXCEPT ![w] = "raised"]
         /\ result' = [result EXCEPT ![w] = exc[w]]
         /\ UNCHANGED <<attempt, exc, after>>
    ELSE /\ pc' = [pc EXCEPT ![w] = "returned"]
         /\ result' = [result EXCEPT ![w] =
               IF after[w] = "return_True" THEN "True"
               ELSE IF after[w] = "return_False" THEN "False" ELSE "rows"]
         /\ UNCHANGED <<attempt, exc, after>>

\* finally with nothing to return: conn is None
FinallyNoConn(w) ==
    /\ pc[w] = "finally"
    /\ ~FinallyPuts(conn[w], after[w])
    /\ Resume(w)
    /\ UNCHANGED <<kind, nstmts, conn, cursor, stmt>>
    /\ UNCHANGED <<poolVars, dbVars, nonExecVars>>

\* finally: cursor.close(); self.pool.putconn(conn) accepts the connection:
\* kept idle while fewer than minconn are idle (rolled back if a transaction
\* is open), closed otherwise
FinallyPut(w) ==
    /\ pc[w] = "finally"
    /\ FinallyPuts(conn[w], after[w])
    /\ rused[conn[w]] # NoOne
    /\ LET c == conn[w] IN
         /\ rused' = [rused EXCEPT ![c] = NoOne]
         /\ IF Len(pool) < MinConn
            THEN /\ pool' = IF c \in closed THEN pool ELSE Append(pool, c)
                 /\ txn' = Rollback(txn, c)
                 /\ closed' = closed
            ELSE /\ pool' = pool
                 /\ closed' = closed \cup {c}
                 /\ txn' = [txn EXCEPT ![c] = {}]
         /\ intxn' = intxn \ {c}
    /\ Resume(w)
    /\ UNCHANGED <<nconn, autocommit, committed, kind, nstmts, conn, cursor, stmt>>
    /\ UNCHANGED nonExecVars

\* finally: putconn raises PoolError ("trying to put unkeyed connection")
\* because conn is not checked out; the exception leaves the call
FinallyPutRaises(w) ==
    /\ pc[w] = "finally"
    /\ FinallyPuts(conn[w], after[w])
    /\ rused[conn[w]] = NoOne
    /\ pc' = [pc EXCEPT ![w] = "raised"]
    /\ result' = [result EXCEPT ![w] = "PoolError"]
    /\ UNCHANGED <<kind, nstmts, attempt, conn, cursor, stmt, exc, after>>
    /\ UNCHANGED <<poolVars, dbVars, nonExecVars>>

Step(w) ==
    \/ Call(w)
    \/ GetConnOk(w)
    \/ GetConnFail(w)
    \/ ExecuteOk(w)
    \/ ExecuteFail(w)
    \/ CommitOk(w)
    \/ CommitFail(w)
    \/ EQ_Except(w)
    \/ ET_Except(w)
    \/ FinallyNoConn(w)
    \/ FinallyPut(w)
    \/ FinallyPutRaises(w)

\* ------------------------------------------------------- WorkloadSimulator
Threads == 1..MaxThreads
Futures == 1..MaxTransactions
OpKinds == {"create_order", "read_order", "update_order", "analytics"}

\* key ranges, scaled down from randint(1, 1000), randint(1, 100) and
\* randint(100000, 999999)
CustKeys == 1..MaxCustKey
PartKeys == 1..MaxPartKey
SuppKeys == 1..MaxSuppKey
OrderKeys == 1..MaxOrderKey

\* self.workload_mix, in dict insertion order
workload_mix == << <<"create_order", 30>>, <<"read_order", 40>>,
                   <<"update_order", 20>>, <<"analytics", 10>> >>

\* the mix a caller assigns for an order-creation-only run
CreateOnlyMix == << <<"create_order", 100>>, <<"read_order", 0>>,
                    <<"update_order", 0>>, <<"analytics", 0>> >>

\* _get_random_operation: walk the cumulative weights, default 'read_order'
RECURSIVE WalkMix(_, _, _)
WalkMix(i, cumulative, rand) ==
    IF i > Len(mix) THEN "read_order"
    ELSE IF rand <= cumulative + mix[i][2] THEN mix[i][1]
    ELSE WalkMix(i + 1, cumulative + mix[i][2], rand)

GetRandomOperation(rand) == WalkMix(1, 0, rand)

\* EcommerceCRUD.create_order: `self.db.execute_transaction(operations)` then
\* `return orderkey`; None only when the call raised.  TRUE: orderkey returned
CreateOrderResult(outcome) == outcome # "raise"

\* the metrics list an operation's CRUD method appends to
MetricKinds == {"create", "read", "update", "delete"}
MetricOf(op) ==
    IF op = "create_order" THEN "create"
    ELSE IF op = "update_order" THEN "update"
    ELSE "read"

\* a list that is replaced by a one-sample list instead of being appended to
AppendSample_Replace(m, k) == [m EXCEPT ![k] = 1]

\* self.metrics[k].append(elapsed): one more sample in the list of kind k
AppendSample(m, k) == [m EXCEPT ![k] = @ + 1]

NoFuture ==
    [state |-> "unsubmitted", op |-> "none", success |-> FALSE,
     txn |-> "none", counted |-> "no", execs |-> 0,
     nopool |-> FALSE, dup |-> FALSE, drawn |-> 0, kept |-> 0,
     err |-> "none"]

NoItemsYet == [left |-> 0, items |-> <<>>]
NoKeys == [cust |-> 0, part |-> 0, supp |-> 0]

InitWork ==
    /\ mainpc = "start"
    /\ futures = [f \in Futures |-> NoFuture]
    /\ results = [total |-> 0, success |-> 0, failed |-> 0]
    /\ tfut = [t \in Threads |-> 0]
    /\ tpc = [t \in Threads |-> "idle"]
    /\ titems = [t \in Threads |-> NoItemsYet]
    /\ tkeys = [t \in Threads |-> NoKeys]
    /\ rows = [CUSTOMER |-> {}, PART |-> {}, SUPPLIER |-> {},
               PARTSUPP |-> {}, ORDERS |-> {}]
    /\ metrics = [k \in MetricKinds |-> 0]
    /\ appended = [k \in MetricKinds |-> 0]

\* the pool threads that are inside, or about to enter, a call of the executor
InCall(u) ==
    /\ u <= numThreads
    /\ \/ tpc[u] \notin {"idle", "item_loop"}
       \/ tpc[u] = "item_loop" /\ titems[u].left = 0 /\ titems[u].items # <<>>

\* pool.getconn() finds maxconn connections checked out by other threads
PoolBusy(t) == Cardinality({u \in Threads \ {t} : InCall(u)}) >= maxconn

\* what a call of the executor can meet: the statement runs ("db"), the
\* database fails it ("fault"), or no connection is to be had ("noconn")
Outcomes(t) ==
    {"db"} \cup (IF faults THEN {"fault"} ELSE {})
           \cup (IF PoolBusy(t) THEN {"noconn"} ELSE {})

\* run_workload: results = {...}; executor.submit(...) for _ in range(N)
Submit ==
    /\ mainpc = "start"
    /\ futures' = [f \in Futures |->
          IF f <= numTransactions THEN [futures[f] EXCEPT !.state = "pending"]
          ELSE futures[f]]
    /\ mainpc' = "collect"
    /\ UNCHANGED <<paramVars, results, tfut, tpc, titems, tkeys, rows, metricVars>>
    /\ UNCHANGED nonWorkVars

\* a queued call that is run again after it has started
Pending_Rerun == {f \in Futures : futures[f].state \in {"pending", "running"}}

\* the work queue of the ThreadPoolExecutor
Pending == {f \in Futures : futures[f].state = "pending"}
FirstPending == CHOOSE f \in Pending : \A g \in Pending : f <= g

\* a pool thread takes the next queued call of run_single_transaction and
\* draws its operation; _execute_create_order draws custkey
Take(t) ==
    /\ t <= numThreads
    /\ tfut[t] = 0
    /\ Pending # {}
    /\ \E rand \in 1..DrawMax, custkey \in CustKeys :
         LET operation == GetRandomOperation(rand) IN
           /\ futures' = [futures EXCEPT ![FirstPending].state = "running",
                                         ![FirstPending].op = operation,
                                         ![FirstPending].execs = @ + 1]
           /\ tpc' = [tpc EXCEPT ![t] =
                 IF operation = "create_order" THEN "check_customer" ELSE "run_op"]
           /\ tkeys' = [tkeys EXCEPT ![t] =
                 IF operation = "create_order"
                 THEN [cust |-> custkey, part |-> 0, supp |-> 0] ELSE NoKeys]
    /\ tfut' = [tfut EXCEPT ![t] = FirstPending]
    /\ UNCHANGED <<paramVars, mainVars, titems, rows, metricVars>>
    /\ UNCHANGED nonWorkVars

\* the call returns (operation, success): the future completes
Finish(t, ok, txnOutcome, fut) ==
    /\ futures' = [futures EXCEPT ![tfut[t]] =
          [fut EXCEPT !.state = "done", !.success = ok, !.txn = txnOutcome,
                      !.kept = Len(titems[t].items)]]
    /\ tfut' = [tfut EXCEPT ![t] = 0]
    /\ tpc' = [tpc EXCEPT ![t] = "idle"]
    /\ titems' = [titems EXCEPT ![t] = NoItemsYet]
    /\ tkeys' = [tkeys EXCEPT ![t] = NoKeys]

\* the record of the running call, noting a call that found no connection
Noted(t, o) ==
    [futures[tfut[t]] EXCEPT !.nopool = @ \/ (o = "noconn")]

\* _ensure_customer_exists returned True: num_items = random.randint(1, 5),
\* items = []
StartItems(t, fut) ==
    \E n \in 1..MaxItems :
        /\ titems' = [titems EXCEPT ![t] = [left |-> n, items |-> <<>>]]
        /\ futures' = [futures EXCEPT ![tfut[t]] = [fut EXCEPT !.drawn = n]]
        /\ tpc' = [tpc EXCEPT ![t] = "item_loop"]
        /\ UNCHANGED <<tfut, tkeys>>

\* _ensure_customer_exists: the check query.  A row found: return True; no
\* row: go on to create_customer; an exception: return False, and
\* _execute_create_order returns ('create_order', False)
EnsureCustomerCheck(t) ==
    /\ tpc[t] = "check_customer"
    /\ \E o \in Outcomes(t) :
         IF o = "db"
         THEN IF tkeys[t].cust \in rows.CUSTOMER
              THEN StartItems(t, futures[tfut[t]])
              ELSE /\ tpc' = [tpc EXCEPT ![t] = "create_customer"]
                   /\ UNCHANGED <<futures, tfut, titems, tkeys>>
         ELSE Finish(t, FALSE, "none", Noted(t, o))
    /\ UNCHANGED <<paramVars, mainVars, rows, metricVars>>
    /\ UNCHANGED nonWorkVars

\* _ensure_customer_exists: self.crud.create_customer(custkey), whose result
\* is not looked at; then return True.  create_customer appends to
\* metrics['create'] when its INSERT went through and catches every exception
EnsureCustomerInsert(t) ==
    /\ tpc[t] = "create_customer"
    /\ \E o \in Outcomes(t) :
         LET inserted == o = "db" /\ tkeys[t].cust \notin rows.CUSTOMER
             duplicate == o = "db" /\ tkeys[t].cust \in rows.CUSTOMER
         IN  /\ rows' = IF inserted
                        THEN [rows EXCEPT !.CUSTOMER = @ \cup {tkeys[t].cust}]
                        ELSE rows
             /\ metrics' = IF inserted THEN AppendSample(metrics, "create")
                           ELSE metrics
             /\ appended' = IF inserted THEN [appended EXCEPT !["create"] = @ + 1]
                            ELSE appended
             /\ StartItems(t, [Noted(t, o) EXCEPT !.dup = @ \/ duplicate])
    /\ UNCHANGED <<paramVars, mainVars>>
    /\ UNCHANGED nonWorkVars

\* for _ in range(num_items): partkey and suppkey are drawn
ItemLoop(t) ==
    /\ tpc[t] = "item_loop"
    /\ titems[t].left > 0
    /\ \E partkey \in PartKeys, suppkey \in SuppKeys :
         tkeys' = [tkeys EXCEPT ![t].part = partkey, ![t].supp = suppkey]
    /\ titems' = [titems EXCEPT ![t].left = @ - 1]
    /\ tpc' = [tpc EXCEPT ![t] = "check_part"]
    /\ UNCHANGED <<paramVars, mainVars, futures, tfut, rows, metricVars>>
    /\ UNCHANGED nonWorkVars

\* _ensure_part_supplier_exists works through PART, SUPPLIER and PARTSUPP
EnsureTables == {"PART", "SUPPLIER", "PARTSUPP"}
CheckPc == [PART |-> "check_part", SUPPLIER |-> "check_supplier",
            PARTSUPP |-> "check_partsupp"]
InsertPc == [PART |-> "insert_part", SUPPLIER |-> "insert_supplier",
             PARTSUPP |-> "insert_partsupp"]
AfterPc == [PART |-> "check_supplier", SUPPLIER |-> "check_partsupp",
            PARTSUPP |-> "item_loop"]
KeyOf(t, tab) ==
    IF tab = "PART" THEN tkeys[t].part
    ELSE IF tab = "SUPPLIER" THEN tkeys[t].supp
    ELSE <<tkeys[t].part, tkeys[t].supp>>

\* back in _execute_create_order after _ensure_part_supplier_exists returned
\* True: items.append((partkey, suppkey, quantity, price))
ItemsAfter(t, tab) ==
    IF tab = "PARTSUPP"
    THEN [titems EXCEPT ![t].items = Append(@, <<tkeys[t].part, tkeys[t].supp>>)]
    ELSE titems

\* partkey and suppkey are dead once the loop body is left
KeysAt(t, nextpc) ==
    IF nextpc = "item_loop" THEN [tkeys EXCEPT ![t].part = 0, ![t].supp = 0]
    ELSE tkeys

\* _ensure_part_supplier_exists: one of the three check queries.  An
\* exception: return False, and the caller skips the item (`continue`)
EnsurePartSupplierCheck(t, tab) ==
    /\ tpc[t] = CheckPc[tab]
    /\ \E o \in Outcomes(t) :
         LET nextpc == IF o # "db" THEN "item_loop"
                       ELSE IF KeyOf(t, tab) \in rows[tab] THEN AfterPc[tab]
                       ELSE InsertPc[tab]
         IN  /\ tpc' = [tpc EXCEPT ![t] = nextpc]
             /\ titems' = IF nextpc = AfterPc[tab] /\ o = "db"
                          THEN ItemsAfter(t, tab) ELSE titems
             /\ tkeys' = KeysAt(t, nextpc)
             /\ futures' = [futures EXCEPT ![tfut[t]] = Noted(t, o)]
    /\ UNCHANGED <<paramVars, mainVars, tfut, rows, metricVars>>
    /\ UNCHANGED nonWorkVars

\* _ensure_part_supplier_exists: one of the three INSERTs, through
\* execute_query(..., fetch=False).  A duplicate key or any other exception:
\* return False, and the caller skips the item
EnsurePartSupplierInsert(t, tab) ==
    /\ tpc[t] = InsertPc[tab]
    /\ \E o \in Outcomes(t) :
         LET inserted == o = "db" /\ KeyOf(t, tab) \notin rows[tab]
             duplicate == o = "db" /\ KeyOf(t, tab) \in rows[tab]
             nextpc == IF inserted THEN AfterPc[tab] ELSE "item_loop"
         IN  /\ rows' = IF inserted
                        THEN [rows EXCEPT ![tab] = @ \cup {KeyOf(t, tab)}]
                        ELSE rows
             /\ tpc' = [tpc EXCEPT ![t] = nextpc]
             /\ titems' = IF inserted THEN ItemsAfter(t, tab) ELSE titems
             /\ tkeys' = KeysAt(t, nextpc)
             /\ futures' = [futures EXCEPT ![tfut[t]] =
                   [Noted(t, o) EXCEPT !.dup = @ \/ duplicate]]
    /\ UNCHANGED <<paramVars, mainVars, tfut, metricVars>>
    /\ UNCHANGED nonWorkVars

\* `if not items: return ('create_order', False)`
NoItems(t) ==
    /\ tpc[t] = "item_loop"
    /\ titems[t].left = 0
    /\ titems[t].items = <<>>
    /\ Finish(t, FALSE, "none", futures[tfut[t]])
    /\ UNCHANGED <<paramVars, mainVars, rows, metricVars>>
    /\ UNCHANGED nonWorkVars

\* the ORDERS and LINEITEM inserts commit: the order key is new and the rows
\* they reference exist
OrderValid(t, orderkey) ==
    /\ orderkey \notin rows.ORDERS
    /\ tkeys[t].cust \in rows.CUSTOMER
    /\ \A i \in 1..Len(titems[t].items) : titems[t].items[i] \in rows.PARTSUPP

\* orderkey = self.crud.create_order(custkey, items);
\* return ('create_order', orderkey is not None).  execute_transaction
\* returns True after its commit, returns False, or raises; create_order
\* appends to metrics['create'] unless it raised
CreateOrder(t) ==
    /\ tpc[t] = "item_loop"
    /\ titems[t].left = 0
    /\ titems[t].items # <<>>
    /\ \E o \in Outcomes(t) \cup (IF faults THEN {"raise"} ELSE {}),
          orderkey \in OrderKeys :
         LET outcome == IF o = "raise" THEN "raise"
                        ELSE IF o = "db" /\ OrderValid(t, orderkey) THEN "True"
                        ELSE "False"
         IN  /\ rows' = IF outcome = "True"
                        THEN [rows EXCEPT !.ORDERS = @ \cup {orderkey}]
                        ELSE rows
             /\ metrics' = IF outcome # "raise"
                           THEN AppendSample(metrics, "create") ELSE metrics
             /\ appended' = IF outcome # "raise"
                            THEN [appended EXCEPT !["create"] = @ + 1]
                            ELSE appended
             /\ Finish(t, CreateOrderResult(outcome),
                       IF outcome = "True" THEN "committed" ELSE "failed",
                       Noted(t, o))
    /\ UNCHANGED <<paramVars, mainVars>>
    /\ UNCHANGED nonWorkVars

\* the exception execute_query raises into the CRUD method: after its last
\* attempt an OperationalError (connection failure, timeout, serialization
\* conflict), at once any other error; PoolError when the pool is exhausted
RaisedBy(o) ==
    IF o = "db" THEN {"none"}
    ELSE IF o = "noconn" THEN {"PoolError"}
    ELSE {"OperationalError", "Error"}

\* _execute_read_order / _execute_update_order / _execute_analytics: the CRUD
\* method appends its latency when its queries went through; it catches
\* every exception and returns None / False
RunOp(t) ==
    /\ tpc[t] = "run_op"
    /\ \E o \in Outcomes(t) : \E e \in RaisedBy(o) :
         LET k == MetricOf(futures[tfut[t]].op)
         IN  /\ metrics' = IF o = "db" THEN AppendSample(metrics, k) ELSE metrics
             /\ appended' = IF o = "db" THEN [appended EXCEPT ![k] = @ + 1]
                            ELSE appended
             /\ Finish(t, o = "db", "none", [Noted(t, o) EXCEPT !.err = e])
    /\ UNCHANGED <<paramVars, mainVars, rows>>
    /\ UNCHANGED nonWorkVars

\* a tally that counts an operation into the total only when it succeeded
CountInto_SuccessOnly(res, ok) ==
    [total |-> res.total + (IF ok THEN 1 ELSE 0),
     success |-> res.success + (IF ok THEN 1 ELSE 0),
     failed |-> res.failed + (IF ok THEN 0 ELSE 1)]

\* results['total'] += 1; results['success' | 'failed'] += 1
CountInto(res, ok) ==
    [total |-> res.total + 1,
     success |-> res.success + (IF ok THEN 1 ELSE 0),
     failed |-> res.failed + (IF ok THEN 0 ELSE 1)]

\* for future in as_completed(futures): op_type, success = future.result()
Collect(f) ==
    /\ mainpc = "collect"
    /\ futures[f].state = "done"
    /\ results' = CountInto(results, futures[f].success)
    /\ futures' = [futures EXCEPT ![f].state = "collected",
                                  ![f].counted = IF futures[f].success
                                                 THEN "success" ELSE "failed"]
    /\ UNCHANGED <<paramVars, mainpc, tfut, tpc, titems, tkeys, rows, metricVars>>
    /\ UNCHANGED nonWorkVars

AllCollected ==
    \A f \in Futures : f <= numTransactions => futures[f].state = "collected"

\* the summary: results['success']/results['total']*100 raises
\* ZeroDivisionError when total is 0; otherwise `return results`
Summary ==
    /\ mainpc = "collect"
    /\ AllCollected
    /\ mainpc' = IF results.total = 0 THEN "raised" ELSE "returned"
    /\ UNCHANGED <<paramVars, results, threadVars, rows, metricVars>>
    /\ UNCHANGED nonWorkVars

\* the steps of _execute_create_order
CreateOrderStep(t) ==
    \/ EnsureCustomerCheck(t)
    \/ EnsureCustomerInsert(t)
    \/ ItemLoop(t)
    \/ \E tab \in EnsureTables : EnsurePartSupplierCheck(t, tab)
    \/ \E tab \in EnsureTables : EnsurePartSupplierInsert(t, tab)
    \/ NoItems(t)
    \/ CreateOrder(t)

ThreadStep(t) ==
    \/ Take(t)
    \/ CreateOrderStep(t)
    \/ RunOp(t)

\* ------------------------------------------------------- retry back-off
\* largest max_retries handed to a retry loop
MaxRetriesArg == 5

\* the functions whose retry loop sleeps between attempts
RetryLoops == {"execute_query", "execute_transaction", "run_single_transaction"}

\* the 0.1 s of `time.sleep(0.1 * (attempt + 1))`, in milliseconds
BaseDelayMs == 100

\* time.sleep(0.1 * (attempt + 1))
SleepDelay(a) == BaseDelayMs * (a + 1)

\* no retry loop is being followed
NoBackoff ==
    /\ boFn = "none"
    /\ boMax = MaxRetries
    /\ boPc = "idle"
    /\ boAttempt = 0
    /\ boSlept = <<>>

\* for attempt in range(max_retries): first iteration
InitBackoff ==
    /\ boFn \in RetryLoops
    /\ boMax \in 1..MaxRetriesArg
    /\ boPc = "loop"
    /\ boAttempt = 0
    /\ boSlept = <<>>

\* a retryable failure before the last attempt: sleep, then `continue`
BackoffRetry ==
    /\ boPc = "loop"
    /\ boAttempt < boMax - 1
    /\ boSlept' = Append(boSlept, SleepDelay(boAttempt))
    /\ boAttempt' = boAttempt + 1
    /\ UNCHANGED <<boFn, boMax, boPc>>
    /\ UNCHANGED nonBoVars

\* a failure on the last attempt: no sleep, the loop is left
BackoffGiveUp ==
    /\ boPc = "loop"
    /\ boAttempt = boMax - 1
    /\ boPc' = "failed"
    /\ UNCHANGED <<boFn, boMax, boAttempt, boSlept>>
    /\ UNCHANGED nonBoVars

\* the attempt succeeds
BackoffSuccess ==
    /\ boPc = "loop"
    /\ boPc' = "returned"
    /\ UNCHANGED <<boFn, boMax, boAttempt, boSlept>>
    /\ UNCHANGED nonBoVars

\* ------------------------------------------------ _get_random_operation
\* weights a caller may assign: multiples of WeightUnit
Weights == {i * WeightUnit : i \in 0..MaxWeightUnits}
Absent == 0 - 1

\* the keys of a mix keep the order every caller of the repository writes
KindOrder == <<"create_order", "read_order", "update_order", "analytics">>
Present(p) == p[2] # Absent
MixOf(w) == SelectSeq([i \in 1..4 |-> <<KindOrder[i], w[i]>>], Present)

\* the mixes a caller may assign to simulator.workload_mix
Mixes ==
    ({MixOf(w) : w \in [1..4 -> Weights \cup {Absent}]} \ {<<>>})
        \cup {workload_mix}

\* no operation is being drawn
NoDraw ==
    /\ drawRand = 0
    /\ drawOp = "none"

\* _get_random_operation: rand = random.randint(1, 100), then the walk
DrawOperation ==
    /\ drawRand = 0
    /\ \E r \in 1..DrawMax :
         /\ drawRand' = r
         /\ drawOp' = GetRandomOperation(r)
    /\ UNCHANGED nonDrawVars

\* -------------------------------------------------- get_performance_metrics
\* the summary before get_performance_metrics has returned
NotComputed ==
    [count |-> 0 - 1,
     avg_latency |-> <<0, 1>>,
     min_latency |-> 0,
     max_latency |-> 0,
     p95_latency |-> 0]
\* no summary is being computed
NoSummary ==
    /\ times = <<>>
    /\ summary = NotComputed

\* the latency lists summarised: n samples with the values
\* ((i * stride + offset) % n) + 1, a permutation of 1..n when stride and n
\* are coprime and a list with repeated values otherwise
SampleList(n, stride, offset) ==
    [i \in 1..n |-> ((i * stride + offset) % n) + 1]
SampleLists ==
    {SampleList(n, stride, offset) :
        n \in 0..MaxSamples, stride \in 1..MaxStride, offset \in 0..MaxOffset}

Ascending(a, b) == a < b
\* sorted(times)
Sorted(ts) == SortSeq(ts, Ascending)
\* sum(times), min(times), max(times)
RECURSIVE SumSeq(_, _)
SumSeq(ts, i) == IF i = 0 THEN 0 ELSE ts[i] + SumSeq(ts, i - 1)
MinOf(ts) == CHOOSE x \in {ts[i] : i \in 1..Len(ts)} :
                 \A i \in 1..Len(ts) : x <= ts[i]
MaxOf(ts) == CHOOSE x \in {ts[i] : i \in 1..Len(ts)} :
                 \A i \in 1..Len(ts) : ts[i] <= x
\* int(len(times) * 0.95): the product is within half an ulp of 0.95 * n, so
\* the truncation is the integer floor of 95 n / 100
P95Index(n) == (n * P95Percent) \div 100

\* sorted(times)[int(len(times) * 0.95)] if len(times) > 20 else max(times);
\* Python indexes from 0, a sequence here from 1
P95_NearestRank(ts) ==
    IF Len(ts) > P95MinSamples THEN Sorted(ts)[P95Index(Len(ts))]
    ELSE MaxOf(ts)
P95(ts) ==
    IF Len(ts) > P95MinSamples THEN Sorted(ts)[P95Index(Len(ts)) + 1]
    ELSE MaxOf(ts)

\* the entry of get_performance_metrics for one operation type; the average
\* is kept as the pair (sum, count) it is the quotient of
MetricsSummary(ts) ==
    IF ts # <<>>
    THEN [count |-> Len(ts),
          avg_latency |-> <<SumSeq(ts, Len(ts)), Len(ts)>>,
          min_latency |-> MinOf(ts),
          max_latency |-> MaxOf(ts),
          p95_latency |-> P95(ts)]
    ELSE [count |-> 0,
          avg_latency |-> <<0, 1>>,
          min_latency |-> 0,
          max_latency |-> 0,
          p95_latency |-> 0]

GetPerformanceMetrics ==
    /\ summary = NotComputed
    /\ summary' = MetricsSummary(times)
    /\ UNCHANGED <<times, nonSumVars>>

\* ------------------------------------------------------------ ClusterMonitor
Nodes == 1..NumNodes

\* what the status endpoint answers: the request fails, or a response with a
\* status other than 200, or a response with status 200 and a body
ResponseKinds == {"network_error", "non200", "ok"}
\* bodies: not JSON; a JSON number or null; a JSON string; a JSON array; an
\* object without 'nodes'; an object whose 'nodes' is not iterable; an
\* object whose 'nodes' holds something that is not an object; an object
\* with a list of node records
BodyShapes == {"not_json", "scalar", "string", "array", "object_no_nodes",
               "nodes_not_list", "node_not_object", "nodes"}
\* a node record has desc.nodeId and desc.address.addressField, or a desc
\* without address, or no desc
DescForms == {"full", "no_address", "no_desc"}
\* its updatedAt is a number of time units (as digits), or is absent, or is
\* the empty string, or is a text int() rejects
TsForms == {"digits", "missing", "empty", "garbage"}

\* the payload shapes of the endpoint: v25.3 names a node desc.nodeId and
\* desc.address.addressField and gives updatedAt in nanoseconds; the earlier
\* one names it desc.node_id and desc.address.address_field and gives an
\* explicit liveness.is_live flag
ApiVersions == {"v25", "legacy"}

\* no request made yet
NoResponse == [kind |-> "none", shape |-> "none", nodes |-> <<>>, at |-> 0]
\* return None
StatusNone == [ret |-> "None", shape |-> "none", nodes |-> <<>>]
NoCounts == [total |-> 0, live |-> 0, dead |-> 0, rows |-> 0]

\* the Cluster Overview tab has not been drawn
NoDash == [resp |-> NoResponse, out |-> "none", total |-> 0, live |-> 0,
           dead |-> 0, rows |-> 0]

\* no fault-tolerance test is running
NoFaultTest ==
    /\ ftTest = "none"
    /\ ftNodes = <<>>
    /\ ftDuration = 0
    /\ ftpc = "idle"
    /\ ftIdx = 0
    /\ ftLog = <<>>
    /\ ftDown = {}
    /\ wlpc = "idle"
    /\ wlEvent = FALSE

\* no monitor is running
NoMonitor ==
    /\ NoFaultTest
    /\ dash = NoDash
    /\ now = 0
    /\ alive = {}
    /\ updatedAt = <<>>
    /\ response = NoResponse
    /\ nodeStatus = StatusNone
    /\ summaryOut = "none"
    /\ counts = NoCounts
    /\ monpc = "idle"
    /\ apiVersion = "none"

\* threshold_seconds in time units
AgeLimit_Late == ThresholdSeconds * SubPerSec + 1
AgeLimit == ThresholdSeconds * SubPerSec
\* the monitor starts long after the epoch of the timestamps
StartTime == ThresholdSeconds * SubPerSec + 1
\* the instants followed: a few consecutive time units from the start, and
\* again from a little less than the threshold later until just past it
LongWait == ThresholdSeconds * SubPerSec - MaxTicks
Instants ==
    {StartTime + a : a \in 0..MaxTicks}
    \cup {StartTime + LongWait + a : a \in 0..(MaxTicks + 1)}

\* the cluster and a monitor_continuously loop, just started
InitMonitor ==
    /\ NoFaultTest
    /\ dash = NoDash
    /\ now = StartTime
    /\ alive = Nodes
    /\ updatedAt = [n \in Nodes |-> StartTime]
    /\ response = NoResponse
    /\ nodeStatus = StatusNone
    /\ summaryOut = "none"
    /\ counts = NoCounts
    /\ monpc = "polling"
    /\ apiVersion = "v25"

\* time passes (time.sleep(interval), or the cluster is left alone); the
\* cluster is followed for as long as the loop runs
Tick(d) ==
    /\ monpc = "polling"
    /\ now + d \in Instants
    /\ now' = now + d
    /\ UNCHANGED <<alive, updatedAt, response, nodeStatus, summaryOut,
                   counts, monpc, apiVersion, nonMonVars>>

\* a running node writes its status record
NodeUpdate(n) ==
    /\ monpc = "polling"
    /\ n \in alive
    /\ updatedAt' = [updatedAt EXCEPT ![n] = now]
    /\ UNCHANGED <<now, alive, response, nodeStatus, summaryOut, counts,
                   monpc, apiVersion, nonMonVars>>

\* kill_node: the node stops and no longer updates its record
Die(n) ==
    /\ monpc = "polling"
    /\ n \in alive
    /\ alive' = alive \ {n}
    /\ UNCHANGED <<now, updatedAt, response, nodeStatus, summaryOut, counts,
                   monpc, apiVersion, nonMonVars>>

\* start_node: a stopped node runs again and writes its record
Restart(n) ==
    /\ monpc = "polling"
    /\ n \notin alive
    /\ alive' = alive \cup {n}
    /\ updatedAt' = [updatedAt EXCEPT ![n] = now]
    /\ UNCHANGED <<now, response, nodeStatus, summaryOut, counts, monpc,
                   apiVersion, nonMonVars>>

\* the answers the endpoint can give now
NodeRecords(dform, tform) ==
    [n \in Nodes |-> [id |-> n, desc |-> dform[n], form |-> tform[n],
                      ns |-> updatedAt[n], api |-> "v25", flag |-> "absent"]]
\* the records of the earlier shape: no updatedAt, the flag says whether the
\* node is running
LegacyRecords ==
    [n \in Nodes |-> [id |-> n, desc |-> "full", form |-> "missing",
                      ns |-> updatedAt[n], api |-> "legacy",
                      flag |-> IF n \in alive THEN "live" ELSE "dead"]]
RecordForms ==
    {fs \in [Nodes -> DescForms \X TsForms] :
        Cardinality({n \in Nodes : fs[n] # <<"full", "digits">>})
            <= MaxDefective}
Responses ==
    {[kind |-> k, shape |-> "none", nodes |-> <<>>, at |-> now] :
        k \in {"network_error", "non200"}}
    \cup {[kind |-> "ok", shape |-> sh, nodes |-> <<>>, at |-> now] :
            sh \in BodyShapes \ {"nodes"}}
    \cup {[kind |-> "ok", shape |-> "nodes", nodes |-> <<>>, at |-> now]}
    \cup IF apiVersion = "legacy"
         THEN {[kind |-> "ok", shape |-> "nodes", nodes |-> LegacyRecords,
                at |-> now]}
         ELSE {[kind |-> "ok", shape |-> "nodes",
                nodes |-> NodeRecords([n \in Nodes |-> fs[n][1]],
                                      [n \in Nodes |-> fs[n][2]]),
                at |-> now] : fs \in RecordForms}

\* `not updated_at_ns`
Falsy(f) == f.form \in {"missing", "empty"}
\* int(updated_at_ns): the number, or an exception
ParseInt_Lenient(f) == [ok |-> TRUE, v |-> f.ns]
ParseInt(f) ==
    IF f.form = "digits" THEN [ok |-> TRUE, v |-> f.ns]
    ELSE [ok |-> FALSE, v |-> 0]

\* _is_node_live at time t: current_time - updated_at_seconds is compared
\* with the threshold, here with both sides multiplied by the units per second
IsNodeLive_Inclusive(f, t) ==
    IF Falsy(f) THEN FALSE
    ELSE IF ~ParseInt(f).ok THEN FALSE
    ELSE t - ParseInt(f).v <= AgeLimit
IsNodeLive(f, t) ==
    IF Falsy(f) THEN FALSE
    ELSE IF ~ParseInt(f).ok THEN FALSE
    ELSE t - ParseInt(f).v < AgeLimit

\* node['is_live'] = self._is_node_live(updated_at)
Enriched(rec, t) ==
    [id |-> rec.id, desc |-> rec.desc, form |-> rec.form, ns |-> rec.ns,
     api |-> rec.api, flag |-> rec.flag, is_live |-> IsNodeLive(rec, t)]

\* get_node_status: every exception and every status other than 200 gives
\* None; a body that is not an object with 'nodes' is returned as it is
GetNodeStatus(resp) ==
    IF resp.kind # "ok" THEN StatusNone
    ELSE IF resp.shape \in {"not_json", "scalar", "string", "nodes_not_list",
                            "node_not_object"} THEN StatusNone
    ELSE IF resp.shape \in {"array", "object_no_nodes"}
         THEN [ret |-> "data", shape |-> resp.shape, nodes |-> <<>>]
    ELSE [ret |-> "data", shape |-> "nodes",
          nodes |-> [i \in 1..Len(resp.nodes) |->
                        Enriched(resp.nodes[i], resp.at)]]

\* sum(1 for n in nodes if n.get('is_live', False))
LiveCount(nodes) == Cardinality({i \in 1..Len(nodes) : nodes[i].is_live})
\* len(nodes) - live_count
DeadCount_Configured(nodes) == NumNodes - LiveCount(nodes)
DeadCount(nodes) == Len(nodes) - LiveCount(nodes)
\* the records at which node['desc']['nodeId'] or
\* node['desc']['address']['addressField'] raises KeyError: those without
\* desc or address and those of the earlier shape, which has other names
Unprintable(nodes) ==
    {i \in 1..Len(nodes) : nodes[i].desc # "full" \/ nodes[i].api # "v25"}
FirstUnprintable(nodes) ==
    CHOOSE i \in Unprintable(nodes) : \A j \in Unprintable(nodes) : i <= j

\* what print_cluster_summary does with the value of get_node_status: the
\* totals are printed before the rows, a row is printed for each record up
\* to the first one without desc or address, where KeyError leaves the
\* function
SummaryOf(st) ==
    IF st.ret = "data" /\ st.shape = "nodes"
    THEN IF Unprintable(st.nodes) = {}
         THEN [out |-> "printed",
               counts |-> [total |-> Len(st.nodes),
                           live |-> LiveCount(st.nodes),
                           dead |-> DeadCount(st.nodes),
                           rows |-> Len(st.nodes)]]
         ELSE [out |-> "raised",
               counts |-> [total |-> Len(st.nodes),
                           live |-> LiveCount(st.nodes),
                           dead |-> DeadCount(st.nodes),
                           rows |-> FirstUnprintable(st.nodes) - 1]]
    ELSE [out |-> "unavailable", counts |-> NoCounts]

\* one round of monitor_continuously: print_cluster_summary calls
\* get_node_status and prints; an exception other than KeyboardInterrupt
\* leaves the loop
PrintClusterSummary ==
    /\ monpc = "polling"
    /\ \E resp \in Responses :
         LET node_status == GetNodeStatus(resp)
             printed == SummaryOf(node_status)
         IN  /\ response' = resp
             /\ nodeStatus' = node_status
             /\ summaryOut' = printed.out
             /\ counts' = printed.counts
             /\ monpc' = IF printed.out = "raised"
                         THEN "crashed" ELSE "polling"
    /\ UNCHANGED <<now, alive, updatedAt, apiVersion, nonMonVars>>

\* Ctrl+C: except KeyboardInterrupt
KeyboardInterrupt ==
    /\ monpc = "polling"
    /\ monpc' = "stopped"
    /\ UNCHANGED <<now, alive, updatedAt, response, nodeStatus, summaryOut,
                   counts, apiVersion, nonMonVars>>

\* ----------------------------------------------- dashboard, Cluster Overview
\* node.get('liveness', {}).get('is_live', False)
DashIsLive(rec) == rec.flag = "live"
DashLiveCount(nodes) == Cardinality({i \in 1..Len(nodes) : DashIsLive(nodes[i])})
\* the records at which node['desc']['node_id'] or
\* node['desc']['address']['address_field'] raises KeyError
DashUnprintable(nodes) ==
    {i \in 1..Len(nodes) : nodes[i].desc # "full" \/ nodes[i].api # "legacy"}
DashFirstUnprintable(nodes) ==
    CHOOSE i \in DashUnprintable(nodes) :
        \A j \in DashUnprintable(nodes) : i <= j

\* what the tab shows for the value of get_node_status: the four metrics
\* first, then one table row per record until a lookup raises
DashOf(resp, st) ==
    IF st.ret = "data" /\ st.shape = "nodes"
    THEN [resp |-> resp,
          out |-> IF DashUnprintable(st.nodes) = {} THEN "shown" ELSE "raised",
          total |-> Len(st.nodes),
          live |-> DashLiveCount(st.nodes),
          dead |-> Len(st.nodes) - DashLiveCount(st.nodes),
          rows |-> IF DashUnprintable(st.nodes) = {} THEN Len(st.nodes)
                   ELSE DashFirstUnprintable(st.nodes) - 1]
    ELSE [resp |-> resp, out |-> "unavailable", total |-> 0, live |-> 0,
          dead |-> 0, rows |-> 0]

\* one run of the dashboard script up to the end of the first tab
DashboardOverview ==
    /\ \E resp \in Responses : dash' = DashOf(resp, GetNodeStatus(resp))
    /\ UNCHANGED nonUiVars

\* --------------------------------------------- the Run Workload button
\* simulator = WorkloadSimulator(st.session_state.db): the button hands the
\* simulator the connection manager of the session
RunWorkloadButtonArg == "db"

\* WorkloadSimulator.__init__: an EcommerceCRUD instance is used as it is, a
\* connection manager gets an EcommerceCRUD instance of the simulator's own
SimulatorCrud(arg) == IF arg = "crud" THEN "callers" ELSE "own"

\* len of each list of st.session_state.crud.metrics during a run started by
\* the button: the run appends to the lists of the simulator's self.crud, and
\* the dashboard calls no CRUD method of its own instance
DashboardMetrics ==
    IF SimulatorCrud(RunWorkloadButtonArg) = "callers"
    THEN metrics
    ELSE [k \in MetricKinds |-> 0]

\* metrics[...]['count'] of the Performance Metrics tab
DashboardCount(k) == DashboardMetrics[k]

\* ------------------------------------------------ fault_tolerance_test
\* largest workload_duration tried, in seconds
MaxDuration == 1
\* longest node_ids list handed to test_multiple_node_failure
MaxFailNodes == 2
\* num_transactions = workload_duration * 50
TransactionsPerSecond == 50

FaultTests == {"single", "multiple"}
\* node_id of test_single_node_failure, node_ids of test_multiple_node_failure
NodeLists(test) ==
    IF test = "single"
    THEN {<<n>> : n \in Nodes}
    ELSE UNION {[1..k -> Nodes] : k \in 0..MaxFailNodes}

\* a test, just called
InitFaultTest ==
    /\ ftTest \in FaultTests
    /\ ftNodes \in NodeLists(ftTest)
    /\ ftDuration \in 0..MaxDuration
    /\ ftpc = "health"
    /\ ftIdx = 0
    /\ ftLog = <<>>
    /\ ftDown = {}
    /\ wlpc = "idle"
    /\ wlEvent = FALSE

\* self.monitor.print_cluster_summary() prints the summary, or raises on a
\* record it cannot print
SummaryOutcomes == {"printed", "raised"}
\* CockroachDBConnection() opens the pool, or raises when it cannot connect
ConnectOutcomes == {"connected", "raised"}

\* how simulator.run_workload(num_transactions=n, num_threads=10) ends: its
\* summary divides by results['total']
RunWorkloadEnds(n) == IF n = 0 THEN "raised" ELSE "returned"

\* workload_complete.wait() returns once the event is set
EventIsSet_Unchecked == TRUE
EventIsSet == wlEvent

\* Step 1: Verifying cluster health
HealthCheck ==
    /\ ftpc = "health"
    /\ \E o \in SummaryOutcomes :
         ftpc' = IF o = "printed" THEN "start" ELSE "raised"
    /\ ftLog' = Append(ftLog, "health")
    /\ UNCHANGED <<ftTest, ftNodes, ftDuration, ftIdx, ftDown, wlpc, wlEvent>>
    /\ UNCHANGED nonFtVars

\* Step 2: db = CockroachDBConnection(); simulator = WorkloadSimulator(db);
\* workload_thread.start()
StartWorkload ==
    /\ ftpc = "start"
    /\ \E o \in ConnectOutcomes :
         IF o = "connected"
         THEN /\ ftpc' = "kill"
              /\ ftIdx' = 1
              /\ wlpc' = "running"
              /\ ftLog' = Append(ftLog, "workload_start")
         ELSE /\ ftpc' = "raised"
              /\ UNCHANGED <<ftIdx, wlpc, ftLog>>
    /\ UNCHANGED <<ftTest, ftNodes, ftDuration, ftDown, wlEvent>>
    /\ UNCHANGED nonFtVars

\* Step 3: self.controller.kill_node(node_id), for each node in turn;
\* kill_node returns False when it finds no local process to kill
KillNode ==
    /\ ftpc = "kill"
    /\ ftIdx <= Len(ftNodes)
    /\ \E killed \in BOOLEAN :
         ftDown' = IF killed THEN ftDown \cup {ftNodes[ftIdx]} ELSE ftDown
    /\ ftIdx' = ftIdx + 1
    /\ ftLog' = Append(ftLog, "kill")
    /\ UNCHANGED <<ftTest, ftNodes, ftDuration, ftpc, wlpc, wlEvent>>
    /\ UNCHANGED nonFtVars

\* Step 4: Monitoring cluster with failed node
ObserveFailure ==
    /\ ftpc = "kill"
    /\ ftIdx > Len(ftNodes)
    /\ \E o \in SummaryOutcomes :
         ftpc' = IF o = "printed" THEN "wait" ELSE "raised"
    /\ ftLog' = Append(ftLog, "observe")
    /\ UNCHANGED <<ftTest, ftNodes, ftDuration, ftIdx, ftDown, wlpc, wlEvent>>
    /\ UNCHANGED nonFtVars

\* Step 5: workload_complete.wait()
WaitForWorkload ==
    /\ ftpc = "wait"
    /\ EventIsSet
    /\ ftpc' = "restart"
    /\ ftIdx' = 1
    /\ ftLog' = Append(ftLog, "complete")
    /\ UNCHANGED <<ftTest, ftNodes, ftDuration, ftDown, wlpc, wlEvent>>
    /\ UNCHANGED nonFtVars

\* Step 6: self.controller.start_node(node_id), for each node in turn;
\* start_node returns False when the node is not local or does not start
StartNode ==
    /\ ftpc = "restart"
    /\ ftIdx <= Len(ftNodes)
    /\ \E started \in BOOLEAN :
         ftDown' = IF started THEN ftDown \ {ftNodes[ftIdx]} ELSE ftDown
    /\ ftIdx' = ftIdx + 1
    /\ ftLog' = Append(ftLog, "restart")
    /\ UNCHANGED <<ftTest, ftNodes, ftDuration, ftpc, wlpc, wlEvent>>
    /\ UNCHANGED nonFtVars

\* Step 7: Verifying cluster recovery; then the test summary, db.close_all()
\* and `return test_result`
VerifyRecovery ==
    /\ ftpc = "restart"
    /\ ftIdx > Len(ftNodes)
    /\ \E o \in SummaryOutcomes :
         ftpc' = IF o = "printed" THEN "returned" ELSE "raised"
    /\ ftLog' = Append(ftLog, "recovery")
    /\ UNCHANGED <<ftTest, ftNodes, ftDuration, ftIdx, ftDown, wlpc, wlEvent>>
    /\ UNCHANGED nonFtVars

\* the thread's run_workload(): workload_results = simulator.run_workload(...)
\* and then workload_complete.set(); an exception of run_workload ends the
\* thread before the set()
WorkloadThread ==
    /\ wlpc = "running"
    /\ wlpc' = RunWorkloadEnds(ftDuration * TransactionsPerSecond)
    /\ wlEvent' = (wlpc' = "returned")
    /\ UNCHANGED <<ftTest, ftNodes, ftDuration, ftpc, ftIdx, ftLog, ftDown>>
    /\ UNCHANGED nonFtVars

\* the test's own thread
TestThread ==
    \/ HealthCheck
    \/ StartWorkload
    \/ KillNode
    \/ ObserveFailure
    \/ WaitForWorkload
    \/ StartNode
    \/ VerifyRecovery

\* --------------------------------------------------------- specifications
Init ==
    /\ InitPool
    /\ InitCalls
    /\ InitWork
    /\ NoBackoff
    /\ NoDraw
    /\ NoSummary
    /\ NoMonitor
    /\ maxconn \in MinConn..MaxConn
    /\ numTransactions = 0
    /\ numThreads = 1
    /\ mix = workload_mix
    /\ faults = TRUE

Next == \E w \in Workers : Step(w)

Spec == Init /\ [][Next]_vars

SpecFair == Spec /\ \A w \in Workers : WF_vars(Step(w))

InitWorkload ==
    /\ InitPool
    /\ InitCalls
    /\ InitWork
    /\ NoBackoff
    /\ NoDraw
    /\ NoSummary
    /\ NoMonitor
    /\ maxconn \in MinConn..MaxConn
    /\ numTransactions \in 0..MaxTransactions
    /\ numThreads \in 1..MaxThreads
    /\ mix = workload_mix
    /\ faults = TRUE

NextWorkload ==
    \/ Submit
    \/ \E t \in Threads : ThreadStep(t)
    \/ \E f \in Futures : Collect(f)
    \/ Summary

SpecWorkload == InitWorkload /\ [][NextWorkload]_vars

\* a caller assigns the create-only mix and runs the workload on an empty
\* schema, against a database that fails no statement, with a pool that has
\* a connection for every thread
InitScenario ==
    /\ InitPool
    /\ InitCalls
    /\ InitWork
    /\ NoBackoff
    /\ NoDraw
    /\ NoSummary
    /\ NoMonitor
    /\ maxconn = MaxConn
    /\ numTransactions \in 1..MaxTransactions
    /\ numThreads \in 1..MaxThreads
    /\ mix = CreateOnlyMix
    /\ faults = FALSE

NextScenario ==
    \/ Submit
    \/ \E t \in Threads : Take(t)
    \/ \E t \in Threads : CreateOrderStep(t)
    \/ \E f \in Futures : Collect(f)
    \/ Summary

SpecScenario == InitScenario /\ [][NextScenario]_vars

\* a caller assigns a mix; one operation is drawn from it
InitMix ==
    /\ InitPool
    /\ InitCalls
    /\ InitWork
    /\ NoBackoff
    /\ NoDraw
    /\ NoSummary
    /\ NoMonitor
    /\ maxconn = MaxConn
    /\ numTransactions = 0
    /\ numThreads = 1
    /\ mix \in Mixes
    /\ faults = TRUE

NextMix == DrawOperation

SpecMix == InitMix /\ [][NextMix]_vars

\* one latency list is summarised
InitMetrics ==
    /\ InitPool
    /\ InitCalls
    /\ InitWork
    /\ NoBackoff
    /\ NoDraw
    /\ NoMonitor
    /\ maxconn = MaxConn
    /\ numTransactions = 0
    /\ numThreads = 1
    /\ mix = workload_mix
    /\ faults = TRUE
    /\ times \in SampleLists
    /\ summary = NotComputed

NextMetrics == GetPerformanceMetrics

SpecMetrics == InitMetrics /\ [][NextMetrics]_vars

\* a cluster and one monitoring loop
InitCluster ==
    /\ InitPool
    /\ InitCalls
    /\ InitWork
    /\ NoBackoff
    /\ NoDraw
    /\ NoSummary
    /\ InitMonitor
    /\ maxconn = MaxConn
    /\ numTransactions = 0
    /\ numThreads = 1
    /\ mix = workload_mix
    /\ faults = TRUE

NextMonitor ==
    \/ \E d \in {1, LongWait} : Tick(d)
    \/ \E n \in Nodes : NodeUpdate(n)
    \/ \E n \in Nodes : Die(n)
    \/ \E n \in Nodes : Restart(n)
    \/ PrintClusterSummary
    \/ KeyboardInterrupt

SpecMonitor == InitCluster /\ [][NextMonitor]_vars

\* a cluster of either version, print_cluster_summary and the dashboard
InitDashboard ==
    /\ InitPool
    /\ InitCalls
    /\ InitWork
    /\ NoBackoff
    /\ NoDraw
    /\ NoSummary
    /\ NoFaultTest
    /\ dash = NoDash
    /\ now = StartTime
    /\ alive = Nodes
    /\ updatedAt = [n \in Nodes |-> StartTime]
    /\ response = NoResponse
    /\ nodeStatus = StatusNone
    /\ summaryOut = "none"
    /\ counts = NoCounts
    /\ monpc = "polling"
    /\ apiVersion \in ApiVersions
    /\ maxconn = MaxConn
    /\ numTransactions = 0
    /\ numThreads = 1
    /\ mix = workload_mix
    /\ faults = TRUE

NextDashboard ==
    \/ \E n \in Nodes : Die(n)
    \/ \E n \in Nodes : Restart(n)
    \/ PrintClusterSummary
    \/ DashboardOverview

SpecDashboard == InitDashboard /\ [][NextDashboard]_vars

\* one fault-tolerance test
InitTest ==
    /\ InitPool
    /\ InitCalls
    /\ InitWork
    /\ NoBackoff
    /\ NoDraw
    /\ NoSummary
    /\ InitFaultTest
    /\ dash = NoDash
    /\ now = 0
    /\ alive = {}
    /\ updatedAt = <<>>
    /\ response = NoResponse
    /\ nodeStatus = StatusNone
    /\ summaryOut = "none"
    /\ counts = NoCounts
    /\ monpc = "idle"
    /\ apiVersion = "none"
    /\ maxconn = MaxConn
    /\ numTransactions = 0
    /\ numThreads = 1
    /\ mix = workload_mix
    /\ faults = TRUE

NextFaultTest ==
    \/ TestThread
    \/ WorkloadThread

SpecFaultTest == InitTest /\ [][NextFaultTest]_vars

\* both threads keep running while they can
SpecFaultTestFair ==
    SpecFaultTest /\ WF_vars(TestThread) /\ WF_vars(WorkloadThread)

InitRetryLoop ==
    /\ InitPool
    /\ InitCalls
    /\ InitWork
    /\ InitBackoff
    /\ NoDraw
    /\ NoSummary
    /\ NoMonitor
    /\ maxconn = MaxConn
    /\ numTransactions = 0
    /\ numThreads = 1
    /\ mix = workload_mix
    /\ faults = TRUE

NextRetryLoop ==
    \/ BackoffRetry
    \/ BackoffGiveUp
    \/ BackoffSuccess

SpecRetryLoop == InitRetryLoop /\ [][NextRetryLoop]_vars

\* ------------------------------------------------------------------ claims
Done(w) == pc[w] \in {"returned", "raised"}
Transient(e) == e \in {"TransactionRollbackError", "OperationalError"}

\* C1: for every N >= 0 and K >= 1 run_workload(N, K) returns (it does not
\* raise) and its results satisfy success + failed == N
C1_WorkloadCompleteness ==
    mainpc \in {"returned", "raised"} =>
        /\ mainpc = "returned"
        /\ results.success + results.failed = numTransactions

\* C2: a create-order operation whose transaction did not commit is counted
\* in results['failed'], never in results['success']
C2_UncommittedOrderCountedFailed ==
    \A f \in Futures : futures[f].txn = "failed" => futures[f].counted # "success"

\* the next step of w executes, commits or rolls back on conn[w]
UsesConn(w) ==
    \/ pc[w] \in {"execute", "commit"}
    \/ /\ pc[w] = "except"
       /\ IF kind[w] = "txn" THEN ET_Rollback(exc[w], attempt[w], conn[w])
          ELSE EQ_Rollback(exc[w], attempt[w], conn[w])

\* C3: no connection is used (execute, commit, rollback) by one caller while
\* it is checked out to a different caller
C3_ExclusiveUse ==
    \A w \in Workers : UsesConn(w) => rused[conn[w]] \in {w, NoOne}

\* C4: putconn is called only for a connection the caller currently holds
\* (no checkout is returned twice)
C4_PutOnlyHeld ==
    \A w \in Workers :
        (pc[w] = "finally" /\ conn[w] # None) => rused[conn[w]] = w

\* C5: once every caller has left execute_query / execute_transaction no
\* connection is checked out
C5_NoLeak ==
    (\A w \in Workers : Done(w)) => (\A c \in Conns : rused[c] = NoOne)

\* every caller has finished, one of them after a retried attempt and one of
\* them with an error, and connections had been checked out
C5_Witness ==
    /\ \A w \in Workers : Done(w) /\ conn[w] # None
    /\ \E w \in Workers : attempt[w] > 0
    /\ \E w \in Workers : result[w] \in {"False", "OperationalError", "Error"}
    /\ \E w \in Workers : result[w] \in {"True", "rows"}

\* C6: the statements of one execute_transaction call are committed at most
\* once, all together or not at all, and the call reports success exactly
\* when that commit happened
C6_AtomicOnce ==
    \A w \in Workers : kind[w] = "txn" =>
        /\ \A i \in 1..nstmts[w] : committed[w][i] = committed[w][1]
        /\ committed[w][1] <= 1
        /\ Done(w) => (result[w] = "True" <=> committed[w][1] = 1)

\* C7: in execute_transaction a failed attempt is rolled back as a whole
\* before anything else happens, every attempt starts at the first statement
\* and executes the statements in the given order
C7_RollbackThenRestart ==
    [][\A w \in Workers : kind[w] = "txn" =>
         /\ (pc[w] = "except" /\ pc'[w] # "except" /\ conn[w] # None)
               => txn'[conn[w]] = {}
         /\ (pc[w] = "getconn" /\ pc'[w] = "execute") => stmt'[w] = 1
         /\ (pc[w] = "execute" /\ stmt'[w] # stmt[w]) =>
               (pc'[w] = "execute" /\ stmt'[w] = stmt[w] + 1)
         /\ (pc[w] = "execute" /\ pc'[w] = "commit") => stmt[w] = nstmts[w]
      ]_vars

\* a second attempt of a two-statement transaction has executed both
\* statements again on its connection
C7_Witness ==
    \E w \in Workers :
        /\ kind[w] = "txn" /\ nstmts[w] = 2 /\ attempt[w] = 1
        /\ pc[w] = "commit"
        /\ txn[conn[w]] = {<<w, 1>>, <<w, 2>>}

\* C8: a failed attempt is followed by another attempt if and only if
\* attempts remain and the failure is transient (serialization or
\* connection-level)
C8_RetryIffTransient ==
    [][\A w \in Workers : (pc[w] = "except" /\ pc'[w] = "finally") =>
         ((after'[w] = "continue") <=>
              (attempt[w] < MaxRetries - 1 /\ Transient(exc[w])))
      ]_vars

\* C9: after a non-transient failure the call only runs its finally block
\* and ends: no `continue`, no further getconn or statement
C9_PermanentEndsCall ==
    \A w \in Workers : exc[w] = "Error" =>
        /\ pc[w] \in {"except", "finally", "returned", "raised"}
        /\ pc[w] = "finally" => after[w] \in {"raise", "return_False"}

\* a transaction and a query both ended on their first attempt with a
\* non-transient statement failure
C9_Witness ==
    \E w1, w2 \in Workers :
        /\ kind[w1] = "txn" /\ exc[w1] = "Error" /\ conn[w1] # None
        /\ pc[w1] = "returned" /\ result[w1] = "False" /\ attempt[w1] = 0
        /\ kind[w2] = "query_tx" /\ exc[w2] = "Error" /\ conn[w2] # None
        /\ pc[w2] = "raised" /\ result[w2] = "Error" /\ attempt[w2] = 0

\* C10: a call makes at most max_retries attempts and always terminates
C10_BoundedAttemptsTerminates ==
    /\ [](\A w \in Workers : attempt[w] < MaxRetries)
    /\ <>(\A w \in Workers : Done(w))

\* both kinds of call ended after max_retries attempts that all failed with
\* a transient error
C10_Witness ==
    \E w1, w2 \in Workers :
        /\ kind[w1] = "txn" /\ attempt[w1] = MaxRetries - 1
        /\ exc[w1] = "TransactionRollbackError" /\ result[w1] = "False"
        /\ kind[w2] # "txn" /\ attempt[w2] = MaxRetries - 1
        /\ Transient(exc[w2]) /\ pc[w2] = "raised"

\* 2^n
RECURSIVE Pow2(_)
Pow2(n) == IF n = 0 THEN 1 ELSE 2 * Pow2(n - 1)

\* C11: the delay slept before retry attempt a+1 is base_delay * 2^a, for
\* every attempt index a and every max_retries, in each of the retry loops
C11_ExponentialBackoff ==
    \A i \in 1..Len(boSlept) : boSlept[i] = BaseDelayMs * Pow2(i - 1)

\* C12: a call of execute_query or execute_transaction that has used up its
\* attempts (its last attempt failed on a transient error, or the connection
\* could not be given back) returns a failure value: no exception passes
\* the executor boundary
C12_NoRaisePastBoundary ==
    \A w \in Workers :
        (/\ Done(w)
         /\ attempt[w] = MaxRetries - 1
         /\ Transient(exc[w]) \/ result[w] = "PoolError")
        => pc[w] = "returned"

\* C13: when run_workload(N, K) returns, results['total'] is N and is
\* results['success'] + results['failed']
C13_TotalIsRequested ==
    mainpc = "returned" =>
        /\ results.total = numTransactions
        /\ results.total = results.success + results.failed

C13_Witness ==
    /\ mainpc = "returned"
    /\ numTransactions = MaxTransactions
    /\ results.success >= 1
    /\ results.failed >= 1

Running == {f \in Futures : futures[f].state = "running"}

C14_AtMostKEachOnce ==
    /\ Cardinality(Running) <= numThreads
    /\ \A t \in Threads :
         tfut[t] # 0 => t <= numThreads /\ futures[tfut[t]].state = "running"
    /\ \A t, u \in Threads : t # u /\ tfut[t] # 0 => tfut[t] # tfut[u]
    /\ \A f \in Futures :
         /\ futures[f].execs <= 1
         /\ futures[f].state \in {"running", "done", "collected"}
              => futures[f].execs = 1
    /\ mainpc \in {"returned", "raised"} =>
         \A f \in Futures : f <= numTransactions => futures[f].execs = 1

C14_ToCompletion ==
    \A t \in Threads :
        tfut'[t] # tfut[t] =>
            \/ tfut[t] = 0
            \/ tfut'[t] = 0 /\ futures'[tfut[t]].state = "done"

\* C14: at most K operations are executing at any instant, a pool thread
\* runs its operation to completion before it takes the next, and each of
\* the N submitted operations is executed exactly once
C14_BoundedPool == []C14_AtMostKEachOnce /\ [][C14_ToCompletion]_vars

C14_Witness ==
    /\ numThreads = 1
    /\ numTransactions = 2
    /\ futures[1].state = "collected"
    /\ futures[2].state = "running"
    /\ tpc[1] = "create_customer"

\* C15: when _execute_create_order hands the order to create_order, the
\* customer row and, for every line item, the part, supplier and
\* part-supplier rows exist, also after an insert of a missing one failed
C15_ReferentsExist ==
    \A t \in Threads :
        (tpc[t] = "item_loop" /\ titems[t].left = 0 /\ titems[t].items # <<>>)
        => /\ tkeys[t].cust \in rows.CUSTOMER
           /\ \A i \in 1..Len(titems[t].items) :
                /\ titems[t].items[i][1] \in rows.PART
                /\ titems[t].items[i][2] \in rows.SUPPLIER
                /\ titems[t].items[i] \in rows.PARTSUPP

\* C16: an operation that lost the race for a missing row (its INSERT met a
\* duplicate key) still succeeds and keeps every line item it drew
C16_DuplicateRecovered ==
    \A f \in Futures :
        (futures[f].dup /\ futures[f].state \in {"done", "collected"})
        => futures[f].success /\ futures[f].kept = futures[f].drawn

\* C17: with the create-only mix, an empty schema and no database fault, the
\* run reports N successes, N orders are committed and between 1 and N
\* customers exist
C17_CreateOnlyScenario ==
    mainpc \in {"returned", "raised"} =>
        /\ mainpc = "returned"
        /\ results.success = numTransactions
        /\ Cardinality(rows.ORDERS) = numTransactions
        /\ Cardinality(rows.CUSTOMER) >= 1
        /\ Cardinality(rows.CUSTOMER) <= numTransactions

\* C18: each of the N operations records exactly one sample: after the run
\* the number of recorded samples is N
C18_OneSamplePerOperation ==
    mainpc \in {"returned", "raised"} =>
        metrics["create"] + metrics["read"] + metrics["update"]
            + metrics["delete"] = numTransactions

C20_PoolExhaustedCountsFailed ==
    /\ \A f \in Futures :
         (futures[f].nopool /\ futures[f].counted # "no")
         => futures[f].counted = "failed"
    /\ mainpc = "returned" => results.total = numTransactions

\* the sum of the weights of a mix
RECURSIVE SumWeights(_, _)
SumWeights(m, i) == IF i = 0 THEN 0 ELSE m[i][2] + SumWeights(m, i - 1)
TotalWeight == SumWeights(mix, Len(mix))

\* C21: when the draw exceeds the cumulative total of the weights of a mix
\* (here: of positive total weight), so that no bucket matches,
\* _get_random_operation returns the last-listed kind
C21_OverflowIsLastListed ==
    (drawOp # "none" /\ TotalWeight > 0 /\ drawRand > TotalWeight)
    => drawOp = mix[Len(mix)][1]

\* how many of the equally likely draws select kind k
DrawsFor(k) == Cardinality({r \in 1..DrawMax : GetRandomOperation(r) = k})

\* C22: for every mix of positive total weight, also one whose weights do not
\* sum to 100, the share of the draws that select a kind is its weight
\* divided by the total weight
C22_ProportionalSelection ==
    (drawOp # "none" /\ TotalWeight > 0) =>
        \A i \in 1..Len(mix) :
            DrawsFor(mix[i][1]) * TotalWeight = mix[i][2] * DrawMax

\* C23: whatever the draw from a mix of positive total weight, a kind of
\* weight 0 is not selected
C23_ZeroWeightNeverSelected ==
    (drawOp # "none" /\ TotalWeight > 0) =>
        \A i \in 1..Len(mix) : mix[i][2] = 0 => drawOp # mix[i][1]

\* the number of samples below x, and of samples not above x
Below(x) == Cardinality({i \in 1..Len(times) : times[i] < x})
NotAbove(x) == Cardinality({i \in 1..Len(times) : times[i] <= x})

\* C24: for n >= 1 samples the reported p95 is the largest sample when
\* n < 21; otherwise it is the sample at position floor(0.95 n), counted from
\* 0, of the ascending order, and that position is below n
C24_P95MaxOrRank ==
    (summary # NotComputed /\ Len(times) >= 1) =>
        LET n == Len(times)
            k == (95 * n) \div 100
            x == summary.p95_latency
        IN  IF n < 21
            THEN /\ \E i \in 1..n : times[i] = x
                 /\ \A i \in 1..n : times[i] <= x
            ELSE /\ 0 <= k /\ k < n
                 /\ \E i \in 1..n : times[i] = x
                 /\ Below(x) <= k
                 /\ k < NotAbove(x)
C24_Witness ==
    /\ summary # NotComputed
    /\ Len(times) = 21
    /\ summary.p95_latency < summary.max_latency

\* C25: for exactly 100 samples with the values 1..100, in any insertion
\* order, the reported p95 is 95
C25_P95OfHundred ==
    (/\ summary # NotComputed
     /\ Len(times) = 100
     /\ {times[i] : i \in 1..Len(times)} = 1..100)
    => summary.p95_latency = 95

\* the records of the last value get_node_status returned
Reported == {nodeStatus.nodes[i] : i \in 1..Len(nodeStatus.nodes)}
\* the age, in time units, of a record's timestamp when the poll was made
AgeAtPoll(rec) == response.at - rec.ns

\* C26: a node whose timestamp parses is classified live exactly when the
\* poll time less the timestamp is strictly below 600 seconds
C26_LiveIffFresherThanThreshold ==
    \A rec \in Reported :
        rec.form = "digits" =>
            (rec.is_live <=> AgeAtPoll(rec) < 600 * SubPerSec)
C26_Witness ==
    /\ \E rec \in Reported :
          /\ rec.form = "digits"
          /\ AgeAtPoll(rec) = 600 * SubPerSec
          /\ ~rec.is_live
    /\ \E rec \in Reported :
          /\ rec.form = "digits"
          /\ AgeAtPoll(rec) = (600 - 1) * SubPerSec
          /\ rec.is_live

\* the timestamp forms that are missing, empty or unparseable
BadTimestamp(rec) == rec.form \in {"missing", "empty", "garbage"}

\* C27: when the payload holds a record whose timestamp is missing, empty or
\* unparseable, get_node_status returns the node list (it neither raises nor
\* gives up) with that node classified dead
C27_BadTimestampIsDead ==
    (/\ response.kind = "ok"
     /\ response.shape = "nodes"
     /\ \E i \in 1..Len(response.nodes) : BadTimestamp(response.nodes[i]))
    => /\ nodeStatus.ret = "data"
       /\ Len(nodeStatus.nodes) = Len(response.nodes)
       /\ \A rec \in Reported : BadTimestamp(rec) => ~rec.is_live
C27_Witness ==
    /\ nodeStatus.ret = "data"
    /\ \E rec \in Reported :
          /\ rec.form = "garbage"
          /\ AgeAtPoll(rec) < 600 * SubPerSec
          /\ ~rec.is_live

\* a poll that returns node records is made in this step
PollsNodes ==
    /\ response' # response
    /\ nodeStatus'.ret = "data"

\* C28 as stated: in every poll made after a node has died, the node is
\* classified dead
C28_DeadNeverReportedLive ==
    [][PollsNodes =>
         \A i \in 1..Len(nodeStatus'.nodes) :
             nodeStatus'.nodes[i].id \notin alive
             => ~nodeStatus'.nodes[i].is_live]_vars

\* C28: in every poll made at least 600 seconds after the last timestamp
\* update of a node that has died, the node is classified dead
C28_StaleDeadNeverReportedLive ==
    [][PollsNodes =>
         \A i \in 1..Len(nodeStatus'.nodes) :
             (/\ nodeStatus'.nodes[i].id \notin alive
              /\ now - updatedAt[nodeStatus'.nodes[i].id] >= 600 * SubPerSec)
             => ~nodeStatus'.nodes[i].is_live]_vars
C28_Witness ==
    /\ response.at = now
    /\ \E rec \in Reported :
          /\ rec.id \notin alive
          /\ rec.form = "digits"
          /\ now - updatedAt[rec.id] >= 600 * SubPerSec
          /\ ~rec.is_live

\* a response that is not status 200 with an object holding a node list
Unusable(resp) == resp.kind # "ok" \/ resp.shape # "nodes"

\* C29: after a poll whose response is a failure, a status other than 200 or
\* a malformed body, get_node_status has returned None and the summary says
\* the status is unavailable; and no poll ends the monitoring loop
C29_UnavailableNotCrash ==
    response.kind # "none" =>
        /\ Unusable(response) =>
              (nodeStatus.ret = "None" /\ summaryOut = "unavailable")
        /\ monpc # "crashed"

\* C30: when the node list holds a record without address or without
\* timestamp, the summary is printed to the end, the totals count every
\* record, and that record is marked dead
C30_IncompleteRecordCounted ==
    \A rec \in Reported :
        (rec.desc = "no_address" \/ rec.form \in {"missing", "empty"})
        => /\ summaryOut = "printed"
           /\ counts.total = Len(nodeStatus.nodes)
           /\ counts.rows = Len(nodeStatus.nodes)
           /\ ~rec.is_live

\* C31: for a record with an explicit liveness flag and for one with only
\* updatedAt, the is_live that get_node_status yields agrees with the
\* liveness the record expresses: the flag, or the freshness of updatedAt
C31_BothShapesTolerated ==
    \A rec \in Reported :
        /\ rec.api = "legacy" => (rec.is_live <=> rec.flag = "live")
        /\ (rec.api = "v25" /\ rec.form = "digits")
           => (rec.is_live <=> AgeAtPoll(rec) < 600 * SubPerSec)

\* C32: for every node list the summary prints, empty or not, live + dead is
\* the number of nodes and neither count is negative
C32_CountsAddUp ==
    summaryOut \in {"printed", "raised"} =>
        /\ counts.total = Len(nodeStatus.nodes)
        /\ counts.live + counts.dead = Len(nodeStatus.nodes)
        /\ counts.live >= 0
        /\ counts.dead >= 0
C32_Witness ==
    /\ summaryOut = "printed"
    /\ response.shape = "nodes"
    /\ Len(nodeStatus.nodes) = 0
    /\ counts.live + counts.dead = 0

\* C38: when the dashboard and print_cluster_summary were given the same
\* payload, they show the same number of live nodes and the same liveness
\* of each node
C38_SameLiveness ==
    (/\ dash.resp = response
     /\ dash.out \in {"shown", "raised"}
     /\ summaryOut \in {"printed", "raised"})
    => /\ dash.live = counts.live
       /\ \A rec \in Reported : DashIsLive(rec) <=> rec.is_live

\* execute_query hands thread w's own connection back on the way out
QueryExitPut(w) ==
    /\ kind[w] \in {"query_auto", "query_tx"}
    /\ pc[w] = "finally"
    /\ after[w] # "continue"
    /\ conn[w] # None
    /\ rused[conn[w]] = w
    /\ rused'[conn[w]] = NoOne

\* C33: on every way out of execute_query, the transaction begun on the
\* connection has been committed or rolled back before putconn, also when
\* the last attempt fails with an operational error
C33_EndedBeforePut ==
    [][\A w \in Workers : QueryExitPut(w) => conn[w] \notin intxn]_vars

\* C34: a call of run_single_transaction whose read, update or analytics
\* operation failed with a retryable error has executed the operation
\* max_retries times before reporting it as failed
C34_RetriedBeforeFailed ==
    \A f \in Futures :
        (/\ futures[f].state \in {"done", "collected"}
         /\ futures[f].op \in {"read_order", "update_order", "analytics"}
         /\ futures[f].err = "OperationalError")
        => futures[f].execs = MaxRetries

\* the steps of a test that fails k nodes, in the order of its source
Repeat(x, k) == [i \in 1..k |-> x]
StepOrder(k) ==
    <<"health", "workload_start">> \o Repeat("kill", k)
        \o <<"observe", "complete">> \o Repeat("restart", k) \o <<"recovery">>
IsPrefix(a, b) == Len(a) <= Len(b) /\ \A i \in 1..Len(a) : a[i] = b[i]
Logged(x) == \E i \in 1..Len(ftLog) : ftLog[i] = x

\* C35: the steps of a fault-tolerance test occur in the order health check,
\* workload start, node kills, health observation, workload completion (the
\* test's wait returns), node restarts, recovery check; and no node is
\* restarted before the background run_workload has returned
C35_StepsInOrder ==
    /\ IsPrefix(ftLog, StepOrder(Len(ftNodes)))
    /\ Logged("restart") => wlpc = "returned"
C35_Witness ==
    /\ ftTest = "multiple"
    /\ Len(ftNodes) = 2
    /\ ftpc = "returned"
    /\ ftLog = StepOrder(2)
    /\ ftDown = {}

\* C36: test_single_node_failure terminates: once it waits for the
\* background workload the wait returns and the restart and recovery steps
\* are reached, whatever workload_duration >= 0 is and also when the
\* thread's run_workload ended with an exception
C36_SingleTestTerminates ==
    (ftTest = "single" /\ ftpc = "wait") ~> Logged("recovery")

\* C37: a workload run started from the dashboard records its latency
\* samples into the dashboard's own EcommerceCRUD metrics: after the run the
\* counts of the Performance Metrics tab are those of the run's samples
C37_DashboardSeesSamples ==
    mainpc = "returned" =>
        \A k \in MetricKinds : DashboardCount(k) = metrics[k]

\* the connections the pool has checked out to thread w
HeldBy(w) == {c \in Conns : rused[c] = w}
MinOf2(a, b) == IF a <= b THEN a ELSE b

\* C39: a thread holds at most one pool connection at any instant and none
\* once its executor call has ended (so the calls of one operation, made one
\* after the other, never nest checkouts), and the number of checked-out
\* connections never exceeds min(concurrency, pool maximum)
C39_OneConnectionPerWorker ==
    /\ \A w \in Workers : Cardinality(HeldBy(w)) <= 1
    /\ \A w \in Workers : Done(w) => HeldBy(w) = {}
    /\ NumUsed <= MinOf2(NumWorkers, maxconn)
\* both threads hold a connection while one of them is in a retry
C39_Witness ==
    /\ maxconn = 2
    /\ NumUsed = 2
    /\ \A w \in Workers : Cardinality(HeldBy(w)) = 1
    /\ \E w \in Workers : attempt[w] > 0 /\ pc[w] = "execute"
====
